---- MODULE Spec2Model ----
(***************************************************************************)
(* A model of package proxyproto (src/protocol.go): a net.Listener and a   *)
(* net.Conn decorator that detect and parse a version 1 PROXY protocol     *)
(* header lazily, exactly once, on the first Read, WriteTo or address      *)
(* query of a connection.                                                  *)
(*                                                                         *)
(* Bytes are one-character strings and a byte stream is a sequence of      *)
(* them, so that the signature peek, the line read, the split into fields  *)
(* and the conversions of the fields are computed character by character   *)
(* as the code computes them.                                              *)
(***************************************************************************)
EXTENDS Integers, Sequences, FiniteSets, TLC

(***************************************************************************)
(* Bounds of the model.                                                    *)
(***************************************************************************)
\* the number of method calls a goroutine makes on the Conn, one after the
\* other, when it is the only one to use it
MaxCalls == 3
\* the largest buffer a caller hands to Read
MaxReadLen == 2
\* the largest number of bytes one read of the raw connection returns,
\* unless it returns everything that is left of the stream
MaxChunk == 1

\* the goroutines that may call methods of the one accepted Conn
Procs == {"g1", "g2", "g3"}

(***************************************************************************)
(* Errors are tuples: <<>> is nil, <<name>> an error value of the          *)
(* libraries, <<text, e>> what fmt.Errorf("text: %w", e) builds and        *)
(* <<text>> what fmt.Errorf builds without wrapping.                       *)
(***************************************************************************)
Nil == <<>>
EOF == <<"EOF">>
ErrTimeout == <<"i/o timeout">>
ErrReset == <<"connection reset by peer">>
ErrClosed == <<"use of closed network connection">>
ErrAccept == <<"accept failed">>
ErrInvalidUpstream == <<"upstream connection address not trusted for PROXY information">>

\* err.(net.Error) with Timeout() true
IsTimeout(e) == e = ErrTimeout

Wrap(text, e) == <<text, e>>

(***************************************************************************)
(* The signature.                                                          *)
(***************************************************************************)
prefix == <<"P", "R", "O", "X", "Y", " ">>
prefixLen == Len(prefix)

CR == "\r"
LF == "\n"

(***************************************************************************)
(* strings.Split(s, sep) for a one-byte separator.                         *)
(***************************************************************************)
\* the index of the first c in s at or after i, 0 when there is none
RECURSIVE IndexFrom(_, _, _)
IndexFrom(s, c, i) ==
    IF i > Len(s) THEN 0
    ELSE IF s[i] = c THEN i
    ELSE IndexFrom(s, c, i + 1)

IndexOf(s, c) == IndexFrom(s, c, 1)

RECURSIVE Split(_, _)
Split(s, sep) ==
    LET i == IndexOf(s, sep)
    IN IF i = 0
       THEN <<s>>
       ELSE <<SubSeq(s, 1, i - 1)>> \o Split(SubSeq(s, i + 1, Len(s)), sep)

(***************************************************************************)
(* strconv.Atoi: an optional sign, then one or more decimal digits.  The   *)
(* fields of the model are shorter than ten digits, so the range error of  *)
(* Atoi does not arise.                                                    *)
(***************************************************************************)
DecDigits == <<"0", "1", "2", "3", "4", "5", "6", "7", "8", "9">>
HexLower == DecDigits \o <<"a", "b", "c", "d", "e", "f">>
HexUpper == DecDigits \o <<"A", "B", "C", "D", "E", "F">>

IsDec(c) == \E i \in 1..Len(DecDigits) : DecDigits[i] = c
IsHex(c) == \E i \in 1..Len(HexLower) : HexLower[i] = c \/ HexUpper[i] = c
HexVal(c) == (CHOOSE i \in 1..Len(HexLower) : HexLower[i] = c \/ HexUpper[i] = c) - 1

RECURSIVE DigitsVal(_, _)
DigitsVal(s, base) ==
    IF s = <<>>
    THEN 0
    ELSE DigitsVal(SubSeq(s, 1, Len(s) - 1), base) * base + HexVal(s[Len(s)])

Atoi(s) ==
    LET signed == s # <<>> /\ s[1] \in {"+", "-"}
        digits == IF signed THEN Tail(s) ELSE s
        ok     == digits # <<>> /\ \A i \in 1..Len(digits) : IsDec(digits[i])
    IN IF ~ok
       THEN [ok |-> FALSE, val |-> 0]
       ELSE [ok |-> TRUE,
             val |-> IF s[1] = "-" THEN 0 - DigitsVal(digits, 10)
                     ELSE DigitsVal(digits, 10)]

(***************************************************************************)
(* net.ParseIP.  An IP is the sequence of its eight 16-bit groups; an IPv4 *)
(* address is held, as net.IP holds it, in its IPv4-in-IPv6 form.  NoIP is *)
(* the nil IP.                                                             *)
(***************************************************************************)
NoIP == <<>>

V4InV6(a, b, c, d) == <<0, 0, 0, 0, 0, 65535, a * 256 + b, c * 256 + d>>

\* one field of a dotted quad: 1 to 3 digits, no leading zero, at most 255
V4Field(f) ==
    LET ok == /\ Len(f) \in 1..3
              /\ \A i \in 1..Len(f) : IsDec(f[i])
              /\ (Len(f) > 1 => f[1] # "0")
    IN IF ok /\ DigitsVal(f, 10) <= 255 THEN DigitsVal(f, 10) ELSE -1

\* the four octets of a dotted quad, or <<>>
parseIPv4(s) ==
    LET fs == Split(s, ".")
    IN IF Len(fs) = 4 /\ \A i \in 1..4 : V4Field(fs[i]) >= 0
       THEN <<V4Field(fs[1]), V4Field(fs[2]), V4Field(fs[3]), V4Field(fs[4])>>
       ELSE <<>>

\* the number of leading hexadecimal digits of s
RECURSIVE HexRun(_)
HexRun(s) == IF s # <<>> /\ IsHex(s[1]) THEN 1 + HexRun(Tail(s)) ELSE 0

Zeros(n) == [i \in 1..n |-> 0]

\* the loop of parseIPv6: s is what is left of the text, acc the groups read
\* so far, ell the group index of the "::" (-1: none yet)
RECURSIVE v6Loop(_, _, _)
v6Loop(s, acc, ell) ==
    LET off  == HexRun(s)
        rest == SubSeq(s, off + 1, Len(s))
        grp  == DigitsVal(SubSeq(s, 1, off), 16)
        acc1 == Append(acc, grp)
        done(a, e, left) ==
            IF left # <<>> THEN NoIP
            ELSE IF Len(a) < 8
                 THEN IF e < 0 THEN NoIP
                      ELSE SubSeq(a, 1, e) \o Zeros(8 - Len(a)) \o SubSeq(a, e + 1, Len(a))
                 ELSE IF e >= 0 THEN NoIP ELSE a
    IN IF Len(acc) >= 8 THEN done(acc, ell, s)
       ELSE IF off = 0 \/ off > 4 THEN NoIP
       ELSE IF rest # <<>> /\ rest[1] = "."
            THEN \* an IPv4 tail takes the last two groups
                 LET q == parseIPv4(s)
                 IN IF (ell < 0 /\ Len(acc) # 6) \/ Len(acc) > 6 \/ q = <<>>
                    THEN NoIP
                    ELSE done(acc \o <<q[1] * 256 + q[2], q[3] * 256 + q[4]>>, ell, <<>>)
       ELSE IF rest = <<>> THEN done(acc1, ell, <<>>)
       ELSE IF rest[1] # ":" \/ Len(rest) = 1 THEN NoIP
       ELSE IF rest[2] = ":"
            THEN IF ell >= 0 THEN NoIP
                 ELSE IF Len(rest) = 2 THEN done(acc1, Len(acc1), <<>>)
                 ELSE v6Loop(SubSeq(rest, 3, Len(rest)), acc1, Len(acc1))
       ELSE v6Loop(Tail(rest), acc1, ell)

parseIPv6(s) ==
    IF Len(s) >= 2 /\ s[1] = ":" /\ s[2] = ":"
    THEN IF Len(s) = 2 THEN Zeros(8) ELSE v6Loop(SubSeq(s, 3, Len(s)), <<>>, 0)
    ELSE v6Loop(s, <<>>, -1)

\* the first of '.' and ':' in s decides the family that is parsed
RECURSIVE ParseIPFrom(_, _)
ParseIPFrom(s, i) ==
    IF i > Len(s) THEN NoIP
    ELSE IF s[i] = "."
         THEN LET q == parseIPv4(s)
              IN IF q = <<>> THEN NoIP ELSE V4InV6(q[1], q[2], q[3], q[4])
    ELSE IF s[i] = ":" THEN parseIPv6(s)
    ELSE ParseIPFrom(s, i + 1)

ParseIP(s) == ParseIPFrom(s, 1)

\* &net.TCPAddr{IP: ip, Port: port}; NoAddr is the nil *net.TCPAddr
NoAddr == <<>>
TCPAddr(ip, port) == <<ip, port>>

(***************************************************************************)
(* checkPrefix, as a function of what the buffered reader holds and of the *)
(* error of its last read of the raw connection.  A result of kind "read"  *)
(* means that checkPrefix is blocked in a read of the raw connection; a    *)
(* result of kind "done" carries what checkPrefix returns (ret), what it   *)
(* assigns to the fields of the Conn, whether it closed the raw connection *)
(* and what is left in the buffered reader.                                *)
(***************************************************************************)
NeedRead == [kind |-> "read"]

Result(ret, perr, close, buf, src, dst, useConn) ==
    [kind |-> "done", ret |-> ret, proxyErr |-> perr, close |-> close, buf |-> buf,
     srcAddr |-> src, dstAddr |-> dst, useConnAddr |-> useConn]

TCP4 == <<"T", "C", "P", "4">>
TCP6 == <<"T", "C", "P", "6">>
UNKNOWN == <<"U", "N", "K", "N", "O", "W", "N">>

\* a faulty Malformed: the branch forgets p.conn.Close()
MalformedNoClose(text, detail, buf, src) ==
    Result(<<text, detail>>, <<text, detail>>, FALSE, buf, src, NoAddr, FALSE)

\* fmt.Errorf(text + ": %s", detail), returned and stored after closing
Malformed(text, detail, buf, src) ==
    Result(<<text, detail>>, <<text, detail>>, TRUE, buf, src, NoAddr, FALSE)

\* header = header[:len(header)-2]
StripTerminator(line) == SubSeq(line, 1, Len(line) - 2)

\* a faulty UnknownHeader: the test of p.unknownOK is inverted
UnknownHeaderInverted(header, n, buf, unknownOK_) ==
    IF unknownOK_ \/ n # 2
    THEN Malformed("invalid UNKNOWN header line", header, buf, NoAddr)
    ELSE Result(Nil, Nil, FALSE, buf, NoAddr, NoAddr, TRUE)

\* case "UNKNOWN"
UnknownHeader(header, n, buf, unknownOK_) ==
    IF ~unknownOK_ \/ n # 2
    THEN Malformed("invalid UNKNOWN header line", header, buf, NoAddr)
    ELSE Result(Nil, Nil, FALSE, buf, NoAddr, NoAddr, TRUE)

\* a faulty ParseAddrs: the two port fields are exchanged
ParseAddrsPortsSwapped(parts, buf) ==
    LET sip   == ParseIP(parts[3])
        sport == Atoi(parts[6])
        dip   == ParseIP(parts[4])
        dport == Atoi(parts[5])
    IN IF sip = NoIP \/ ~sport.ok \/ dip = NoIP \/ ~dport.ok
       THEN Malformed("Invalid header", parts[3], buf, NoAddr)
       ELSE Result(Nil, Nil, FALSE, buf, TCPAddr(sip, sport.val),
                   TCPAddr(dip, dport.val), FALSE)

\* the source and the destination address of a line of six parts
ParseAddrs(parts, buf) ==
    LET sip   == ParseIP(parts[3])
        sport == Atoi(parts[5])
        dip   == ParseIP(parts[4])
        dport == Atoi(parts[6])
        src   == TCPAddr(sip, sport.val)
    IN IF sip = NoIP THEN Malformed("Invalid source ip", parts[3], buf, NoAddr)
       ELSE IF ~sport.ok THEN Malformed("Invalid source port", parts[5], buf, NoAddr)
       ELSE IF dip = NoIP THEN Malformed("Invalid destination ip", parts[4], buf, src)
       ELSE IF ~dport.ok THEN Malformed("Invalid destination port", parts[6], buf, src)
       ELSE Result(Nil, Nil, FALSE, buf, src, TCPAddr(dip, dport.val), FALSE)

\* the header line once read: line ends with the line feed, buf is what the
\* buffered reader holds after it
ParseHeader(line, buf, unknownOK_) ==
    LET header == StripTerminator(line)
        parts  == Split(header, " ")
        n      == Len(parts)
    IN IF n < 2 THEN Malformed("invalid header line", header, buf, NoAddr)
       ELSE IF parts[2] = UNKNOWN THEN UnknownHeader(header, n, buf, unknownOK_)
       ELSE IF parts[2] # TCP4 /\ parts[2] # TCP6
            THEN Malformed("Unhandled address type", parts[2], buf, NoAddr)
       ELSE IF n # 6
            THEN Malformed("Invalid header line (should have 6 parts)", header, buf, NoAddr)
       ELSE ParseAddrs(parts, buf)

\* a faulty LineError: the branch forgets p.conn.Close()
LineErrorNoClose(rerr) ==
    Result(rerr, Wrap("error reading first proxyheader line", rerr), FALSE, <<>>,
           NoAddr, NoAddr, FALSE)

\* p.bufReader.ReadString('\n') failed: the reader hands out all it holds
LineError(rerr) ==
    Result(rerr, Wrap("error reading first proxyheader line", rerr), TRUE, <<>>,
           NoAddr, NoAddr, FALSE)

\* p.bufReader.ReadString('\n') and what follows it
ReadHeaderLine(buf, rerr, unknownOK_) ==
    LET i == IndexOf(buf, LF)
    IN IF i > 0
       THEN ParseHeader(SubSeq(buf, 1, i), SubSeq(buf, i + 1, Len(buf)), unknownOK_)
       ELSE IF rerr = Nil THEN NeedRead
       ELSE LineError(rerr)

\* a faulty PeekError: a timeout is returned like any other error
PeekErrorNoTimeoutCase(buf, rerr) ==
    Result(rerr, Wrap("error while trying to read proxy header", rerr),
           FALSE, buf, NoAddr, NoAddr, FALSE)

\* p.bufReader.Peek(i) failed
PeekError(buf, rerr) ==
    Result(IF IsTimeout(rerr) THEN Nil ELSE rerr,
           Wrap("error while trying to read proxy header", rerr),
           FALSE, buf, NoAddr, NoAddr, FALSE)

\* a faulty PrefixMismatch: the mismatch is returned as an error
PrefixMismatchReturned(buf) ==
    Result(<<"connection read did not match proxy header">>,
           <<"connection read did not match proxy header">>,
           FALSE, buf, NoAddr, NoAddr, FALSE)

\* a faulty PrefixMismatch: p.proxyErr is not set
PrefixMismatchSilent(buf) == Result(Nil, Nil, FALSE, buf, NoAddr, NoAddr, FALSE)

\* the first i bytes differ from the signature
PrefixMismatch(buf) ==
    Result(Nil, <<"connection read did not match proxy header">>,
           FALSE, buf, NoAddr, NoAddr, FALSE)

\* for i := 1; i <= prefixLen; i++
RECURSIVE PeekLoop(_, _, _, _)
PeekLoop(i, buf, rerr, unknownOK_) ==
    IF i > prefixLen THEN ReadHeaderLine(buf, rerr, unknownOK_)
    ELSE IF Len(buf) < i
         THEN IF rerr = Nil THEN NeedRead ELSE PeekError(buf, rerr)
    ELSE IF SubSeq(buf, 1, i) # SubSeq(prefix, 1, i) THEN PrefixMismatch(buf)
    ELSE PeekLoop(i + 1, buf, rerr, unknownOK_)

checkPrefix(buf, rerr, unknownOK_) == PeekLoop(1, buf, rerr, unknownOK_)

(***************************************************************************)
(* The peers of the model: what the remote end of the raw connection       *)
(* sends, how its stream ends ("eof": the peer closes, "reset": a          *)
(* transport error, "open": the peer falls silent) and what the peer       *)
(* meant, which is what the claims compare the program's answers with:     *)
(*   class "tcp"        a well-formed TCP4 or TCP6 line, then the payload  *)
(*   class "unknown"    the line PROXY UNKNOWN, then the payload           *)
(*   class "plain"      a stream that differs from the signature           *)
(*   class "short"      a stream that ends inside the signature            *)
(*   class "malformed"  the signature and a line that breaks the grammar   *)
(*   class "incomplete" the signature and no line terminator               *)
(*   class "crossfamily", "signed", "lfonly": see below                    *)
(***************************************************************************)
PROXY == <<"P", "R", "O", "X", "Y">>
SP == <<" ">>
CRLF == <<CR, LF>>

RECURSIVE Join(_)
Join(fields) ==
    IF Len(fields) = 1 THEN fields[1]
    ELSE fields[1] \o SP \o Join(Tail(fields))

HeaderLine(fields) == Join(fields) \o CRLF

IPv4A == <<"1", ".", "2", ".", "3", ".", "4">>
IPv4B == <<"1", "0", ".", "0", ".", "0", ".", "9">>
IPv6A == <<":", ":", "1">>
IPv6B == <<"f", "e", ":", ":", "2">>
Port80 == <<"8", "0">>
Port9 == <<"9">>

AddrV4A80 == TCPAddr(<<0, 0, 0, 0, 0, 65535, 258, 772>>, 80)
AddrV4B9 == TCPAddr(<<0, 0, 0, 0, 0, 65535, 2560, 9>>, 9)
AddrV6A80 == TCPAddr(<<0, 0, 0, 0, 0, 0, 0, 1>>, 80)
AddrV6B9 == TCPAddr(<<254, 0, 0, 0, 0, 0, 0, 2>>, 9)

Payload1 == <<"h", "i", LF, "!">>
Payload2 == <<"P", "R">>

Peer(class, line, payload, ending, src, dst) ==
    [class |-> class, stream |-> line \o payload, payload |-> payload,
     ending |-> ending, src |-> src, dst |-> dst]

TcpPeers ==
    { Peer("tcp", HeaderLine(<<PROXY, TCP4, IPv4A, IPv4B, Port80, Port9>>), Payload1,
           "eof", AddrV4A80, AddrV4B9),
      Peer("tcp", HeaderLine(<<PROXY, TCP4, IPv4A, IPv4B, Port80, Port9>>), <<>>,
           "open", AddrV4A80, AddrV4B9),
      Peer("tcp", HeaderLine(<<PROXY, TCP6, IPv6A, IPv6B, Port80, Port9>>), Payload2,
           "eof", AddrV6A80, AddrV6B9) }

UnknownPeers ==
    { Peer("unknown", HeaderLine(<<PROXY, UNKNOWN>>), Payload1, "eof", NoAddr, NoAddr) }

PlainPeers ==
    { Peer("plain", <<>>, <<"G", "E", "T", " ", "/", LF>>, "eof", NoAddr, NoAddr),
      Peer("plain", <<>>, <<"P", "R", "O", "X", "Y", "-", "1">>, "reset", NoAddr, NoAddr),
      Peer("plain", <<>>, <<"P", "R", "x">>, "open", NoAddr, NoAddr) }

ShortPeers ==
    { Peer("short", <<>>, s, e, NoAddr, NoAddr) :
        s \in {<<>>, <<"P", "R", "O">>}, e \in {"eof", "reset", "open"} }

MalformedLines ==
    { <<PROXY, <<>>>>,                                          \* no family
      <<PROXY, <<"U", "D", "P">>>>,                             \* a family not known
      <<PROXY, UNKNOWN, Port9>>,                                \* UNKNOWN and more
      <<PROXY, TCP4, IPv4A, IPv4B, Port80>>,                    \* five fields
      <<PROXY, TCP6, IPv6A, IPv6B, Port80, Port9, Port9>>,      \* seven fields
      <<PROXY, TCP4, <<"1", ".", "2">>, IPv4B, Port80, Port9>>, \* source IP
      <<PROXY, TCP4, IPv4A, <<"x">>, Port80, Port9>>,           \* destination IP
      <<PROXY, TCP4, IPv4A, IPv4B, <<"8", "x">>, Port9>>,       \* source port
      <<PROXY, TCP6, IPv6A, IPv6B, Port80, <<>>>> }             \* destination port

MalformedPeers ==
    { Peer("malformed", HeaderLine(f), Payload1, "eof", NoAddr, NoAddr) :
        f \in MalformedLines }
    \cup { Peer("malformed", PROXY \o SP \o <<LF>>, Payload1, "eof", NoAddr, NoAddr) }

IncompletePeers ==
    { Peer("incomplete", PROXY \o SP \o TCP4 \o SP \o <<"1">>, <<>>, e, NoAddr, NoAddr) :
        e \in {"eof", "reset", "open"} }

\* lines that break the grammar of the header in a field or in the terminator
\* and have six fields all the same: an IP literal of the other family
CrossFamilyPeers ==
    { Peer("crossfamily", HeaderLine(f), <<"!">>, "eof", NoAddr, NoAddr) :
        f \in { <<PROXY, TCP4, IPv6A, IPv4B, Port80, Port9>>,
                <<PROXY, TCP6, IPv6A, IPv4B, Port80, Port9>> } }

\* a port with a sign
Minus1 == <<"-", "1">>
Plus80 == <<"+", "8", "0">>

SignedPortPeers ==
    { Peer("signed", HeaderLine(f), <<"!">>, "eof", NoAddr, NoAddr) :
        f \in { <<PROXY, TCP4, IPv4A, IPv4B, Minus1, Port9>>,
                <<PROXY, TCP4, IPv4A, IPv4B, Plus80, Port9>>,
                <<PROXY, TCP4, IPv4A, IPv4B, Port80, Minus1>> } }

\* a line that ends in a line feed with no carriage return before it
LFOnlyPeers ==
    { Peer("lfonly", Join(<<PROXY, TCP4, IPv4A, IPv4B, Port9, Port80>>) \o <<LF>>,
           <<"!">>, "eof", NoAddr, NoAddr) }

Peers ==
    TcpPeers \cup UnknownPeers \cup PlainPeers \cup ShortPeers
    \cup MalformedPeers \cup IncompletePeers
    \cup CrossFamilyPeers \cup SignedPortPeers \cup LFOnlyPeers

\* the addresses of the raw connection
RawLocal == TCPAddr(<<0, 0, 0, 0, 0, 65535, 49320, 1>>, 443)
RawRemote == TCPAddr(<<0, 0, 0, 0, 0, 65535, 49320, 77>>, 51234)

\* the listeners of the model: ProxyHeaderTimeout (0: none), what SourceCheck
\* is ("nil": not set) or answers for the peer, UnknownOK
Listeners ==
    [ProxyHeaderTimeout : {0, 1},
     SourceCheck : {"nil", "allow", "deny", "error"},
     UnknownOK : BOOLEAN]

\* the family field of the peer's line is UNKNOWN
SaysUnknown(q) == Len(q.stream) >= 13 /\ SubSeq(q.stream, 7, 13) = UNKNOWN

\* a listener is paired with the peers on which its configuration bears:
\* UnknownOK with the lines that say UNKNOWN, the answer of SourceCheck with
\* the lines that carry or decline addresses
Setups ==
    { s \in Listeners \X Peers :
        /\ ~s[1].UnknownOK => SaysUnknown(s[2])
        /\ s[1].SourceCheck # "nil" => s[2].class \in {"tcp", "unknown"} }

\* the setups in which the goroutines use the Conn at the same time
ConcurrentSetups ==
    { s \in Setups :
        /\ s[1].SourceCheck = "nil" /\ s[1].UnknownOK
        /\ s[2].ending = "eof"
        /\ \/ /\ s[2].class = "tcp" /\ s[2].payload = Payload2
              /\ s[1].ProxyHeaderTimeout = 0
           \/ s[2].class = "unknown" /\ s[1].ProxyHeaderTimeout = 0
           \/ s[2].class = "plain" /\ s[1].ProxyHeaderTimeout # 0
           \/ /\ s[2].class = "malformed" /\ Len(s[2].stream) <= 11
              /\ s[1].ProxyHeaderTimeout = 0 }

Ops == {"Read", "WriteTo", "LocalAddr", "RemoteAddr", "ProxySourceAddr"}

VARIABLES
    listener,     \* the Listener: its ProxyHeaderTimeout, SourceCheck, UnknownOK
    peer,         \* the remote end of the raw connection
    acceptRet,    \* what Accept returned: <<>> before it has, else <<what, err>>
    connState,    \* the raw connection: "none", "open" or "closed"
    taken,        \* the number of bytes of the stream read from the raw connection
    readDeadline, \* the raw connection's read deadline: "none", "header" (set by
                  \* checkPrefix) or "caller" (set through SetReadDeadline)
    bufReader,    \* p.bufReader: the bytes it holds, read and not yet handed out
    srcAddr,      \* p.srcAddr
    dstAddr,      \* p.dstAddr
    proxyErr,     \* p.proxyErr
    useConnAddr,  \* p.useConnAddr
    once,         \* p.once: "new", "running" or "done"
    proxyHeaderTimeout, \* p.proxyHeaderTimeout
    unknownOK,    \* p.unknownOK
    pc,           \* where each goroutine is: "idle", "once", "parse", "body", "copy"
    op,           \* the method each goroutine is in
    err,          \* the local err of Read and of WriteTo
    budget,       \* the number of calls each goroutine has yet to make
    hist          \* what has happened, for the properties

connVars == <<connState, taken, readDeadline>>
fieldVars == <<bufReader, srcAddr, dstAddr, proxyErr, useConnAddr, once,
               proxyHeaderTimeout, unknownOK>>
procVars == <<pc, op, err, budget>>
vars == <<listener, peer, acceptRet, connVars, fieldVars, procVars, hist>>

Min(a, b) == IF a < b THEN a ELSE b

NoOp == "none"

Start(setups, calls) ==
    /\ \E s \in setups : listener = s[1] /\ peer = s[2]
    /\ budget = calls
    /\ acceptRet = <<>>
    /\ connState = "none"
    /\ taken = 0
    /\ readDeadline = "none"
    /\ bufReader = <<>>
    /\ srcAddr = NoAddr
    /\ dstAddr = NoAddr
    /\ proxyErr = Nil
    /\ useConnAddr = FALSE
    /\ once = "new"
    /\ proxyHeaderTimeout = 0
    /\ unknownOK = FALSE
    /\ pc = [p \in Procs |-> "idle"]
    /\ op = [p \in Procs |-> NoOp]
    /\ err = [p \in Procs |-> Nil]
    /\ hist = [trigger |-> NoOp, parseRuns |-> 0, timedOut |-> FALSE, ran |-> {},
               parseRet |-> Nil, parseTaken |-> 0, out |-> <<>>, wout |-> <<>>,
               own |-> [close |-> FALSE, buf |-> <<>>],
               other |-> [close |-> FALSE, buf |-> <<>>],
               last |-> [o \in Ops |-> <<>>]]

(***************************************************************************)
(* Listener.Accept: the raw Accept, the SourceCheck, NewConn.              *)
(***************************************************************************)
\* a faulty AcceptUseConnAddr: the answer of SourceCheck is dropped
AcceptUseConnAddrDropped == FALSE

\* var useConnAddr bool; if !allowed { useConnAddr = true }
AcceptUseConnAddr == listener.SourceCheck = "deny"

\* a faulty SourceCheckFails: the error of SourceCheck is not looked at
SourceCheckFailsIgnored == FALSE

\* allowed, err := p.SourceCheck(conn.RemoteAddr()); if err != nil
SourceCheckFails == listener.SourceCheck = "error"

Accept ==
    /\ acceptRet = <<>>
    /\ \E ok \in BOOLEAN :
         IF ~ok
         THEN /\ acceptRet' = <<"nil", ErrAccept>>
              /\ UNCHANGED <<connState, useConnAddr, unknownOK, proxyHeaderTimeout>>
         ELSE /\ connState' = "open"
              /\ IF listener.SourceCheck # "nil" /\ SourceCheckFails
                 THEN /\ acceptRet' = <<"nil", ErrInvalidUpstream>>
                      /\ UNCHANGED <<useConnAddr, unknownOK, proxyHeaderTimeout>>
                 ELSE /\ acceptRet' = <<"conn", Nil>>
                      /\ proxyHeaderTimeout' = listener.ProxyHeaderTimeout
                      /\ useConnAddr' = AcceptUseConnAddr
                      /\ unknownOK' = listener.UnknownOK
    /\ UNCHANGED <<listener, peer, taken, readDeadline, bufReader, srcAddr, dstAddr,
                   proxyErr, once, procVars, hist>>

(***************************************************************************)
(* One Read of the raw connection: the results it can have.  A read        *)
(* returns some of the bytes the peer has yet to deliver, fails with the   *)
(* end of the stream once all of it was read, or fails with a timeout when *)
(* a read deadline is set; with none of these it blocks.                   *)
(***************************************************************************)
ConnRead ==
    IF connState = "closed"
    THEN {[n |-> 0, err |-> ErrClosed]}
    ELSE LET left == Len(peer.stream) - taken
         IN {[n |-> k, err |-> Nil] : k \in {j \in 1..left : j <= MaxChunk \/ j = left}}
            \cup (IF left = 0 /\ peer.ending = "eof" THEN {[n |-> 0, err |-> EOF]} ELSE {})
            \cup (IF left = 0 /\ peer.ending = "reset"
                  THEN {[n |-> 0, err |-> ErrReset]} ELSE {})
            \cup (IF readDeadline # "none" THEN {[n |-> 0, err |-> ErrTimeout]} ELSE {})

\* the bytes a read of n bytes returns
ConnBytes(n) == SubSeq(peer.stream, taken + 1, taken + n)

(***************************************************************************)
(* A call of a method of the Conn, and p.once.Do.                          *)
(***************************************************************************)
Call(p, o) ==
    /\ acceptRet # <<>> /\ acceptRet[1] = "conn"
    /\ pc[p] = "idle"
    /\ budget[p] > 0
    /\ pc' = [pc EXCEPT ![p] = "once"]
    /\ op' = [op EXCEPT ![p] = o]
    /\ budget' = [budget EXCEPT ![p] = @ - 1]
    /\ UNCHANGED <<listener, peer, acceptRet, connVars, fieldVars, err, hist>>

\* a faulty OnceReturns: Do returns as soon as some caller has begun
OnceReturnsEarly == once # "new"

\* sync.Once: Do returns at once only when the function has returned
OnceReturns == once = "done"

\* a faulty DeadlineInstalled: the deadline is not set
DeadlineInstalledNever(timeout, deadline) == deadline

\* if p.proxyHeaderTimeout != 0 { p.conn.SetReadDeadline(readDeadLine) }: the
\* read deadline of the raw connection once checkPrefix has begun
DeadlineInstalled(timeout, deadline) == IF timeout # 0 THEN "header" ELSE deadline

\* a faulty DeadlineCleared: the deferred call is missing
DeadlineClearedNever(timeout, deadline) == deadline

\* defer p.conn.SetReadDeadline(time.Time{}), in the same if: the read
\* deadline of the raw connection once checkPrefix has returned
DeadlineCleared(timeout, deadline) == IF timeout # 0 THEN "none" ELSE deadline

\* the first caller of Do runs the function, which begins checkPrefix:
\* p.conn.SetReadDeadline(readDeadLine) when a timeout is configured
OnceBegin(p) ==
    /\ pc[p] = "once"
    /\ once = "new"
    /\ once' = "running"
    /\ pc' = [pc EXCEPT ![p] = "parse"]
    /\ readDeadline' = DeadlineInstalled(proxyHeaderTimeout, readDeadline)
    /\ hist' = [hist EXCEPT !.trigger = op[p], !.parseRuns = @ + 1, !.ran = @ \cup {p}]
    /\ UNCHANGED <<listener, peer, acceptRet, connState, taken, bufReader, srcAddr,
                   dstAddr, proxyErr, useConnAddr, proxyHeaderTimeout, unknownOK,
                   op, err, budget>>

\* every other caller goes on when Do returns
OncePass(p) ==
    /\ pc[p] = "once"
    /\ OnceReturns
    /\ pc' = [pc EXCEPT ![p] = "body"]
    /\ UNCHANGED <<listener, peer, acceptRet, connVars, fieldVars, op, err, budget, hist>>

\* a faulty OnceFunc: checkPrefixOnce replaces the buffered reader always
OnceFuncAlwaysResets(o, res) ==
    IF o \in {"Read", "WriteTo"}
    THEN [err |-> res.ret, close |-> res.close, buf |-> res.buf]
    ELSE [err |-> Nil, close |-> res.close \/ (res.ret # Nil /\ res.ret # EOF),
          buf |-> <<>>]

\* the function handed to once.Do, after checkPrefix has returned res: Read
\* and WriteTo keep the error; checkPrefixOnce closes the Conn and replaces
\* the buffered reader on an error other than io.EOF
OnceFunc(o, res) ==
    IF o \in {"Read", "WriteTo"}
    THEN [err |-> res.ret, close |-> res.close, buf |-> res.buf]
    ELSE IF res.ret # Nil /\ res.ret # EOF
         THEN [err |-> Nil, close |-> TRUE, buf |-> <<>>]
         ELSE [err |-> Nil, close |-> res.close, buf |-> res.buf]

\* for the properties: a method of the other kind than o (Read and WriteTo
\* call checkPrefix themselves, the accessors call checkPrefixOnce), and what
\* the function handed to once.Do leaves behind: whether the raw connection
\* is closed, what the buffered reader holds
OtherTrigger(o) == IF o \in {"Read", "WriteTo"} THEN "RemoteAddr" ELSE "Read"

Outcome(f) == [close |-> f.close, buf |-> f.buf]

\* checkPrefix, from one read of the raw connection to the next
ParseStep(p) ==
    /\ pc[p] = "parse"
    /\ \E r \in ConnRead :
       \E res \in {checkPrefix(bufReader \o ConnBytes(r.n), r.err, unknownOK)} :
         LET f == OnceFunc(op[p], res)
         IN /\ taken' = taken + r.n
            /\ IF res.kind = "read"
               THEN /\ bufReader' = bufReader \o ConnBytes(r.n)
                    /\ UNCHANGED <<connState, readDeadline, srcAddr, dstAddr, proxyErr,
                                   useConnAddr, once, pc, err, hist>>
               ELSE /\ bufReader' = f.buf
                    /\ connState' = IF f.close THEN "closed" ELSE connState
                    /\ readDeadline' = DeadlineCleared(proxyHeaderTimeout, readDeadline)
                    /\ srcAddr' = res.srcAddr
                    /\ dstAddr' = res.dstAddr
                    /\ proxyErr' = res.proxyErr
                    /\ useConnAddr' = (useConnAddr \/ res.useConnAddr)
                    /\ once' = "done"
                    /\ pc' = [pc EXCEPT ![p] = "body"]
                    /\ err' = [err EXCEPT ![p] = f.err]
                    /\ hist' = [hist EXCEPT !.timedOut = IsTimeout(r.err),
                                            !.parseRet = res.ret,
                                            !.parseTaken = taken + r.n,
                                            !.own = Outcome(f),
                                            !.other = Outcome(OnceFunc(OtherTrigger(op[p]), res))]
    /\ UNCHANGED <<listener, peer, acceptRet, proxyHeaderTimeout, unknownOK, op, budget>>

(***************************************************************************)
(* The methods, after p.once.Do.                                           *)
(***************************************************************************)
Return(p, result) ==
    /\ pc' = [pc EXCEPT ![p] = "idle"]
    /\ op' = [op EXCEPT ![p] = NoOp]
    /\ err' = [err EXCEPT ![p] = Nil]
    /\ hist' = [hist EXCEPT !.last[op[p]] = result, !.ran = @ \ {p}]

LocalAddrValue == IF dstAddr # NoAddr /\ ~useConnAddr THEN dstAddr ELSE RawLocal

RemoteAddrValue == IF srcAddr # NoAddr /\ ~useConnAddr THEN srcAddr ELSE RawRemote

ProxySourceAddrValue ==
    IF srcAddr = NoAddr THEN <<NoAddr, proxyErr>> ELSE <<srcAddr, proxyErr>>

LocalAddr(p) ==
    /\ pc[p] = "body" /\ op[p] = "LocalAddr"
    /\ Return(p, LocalAddrValue)
    /\ UNCHANGED <<listener, peer, acceptRet, connVars, fieldVars, budget>>

RemoteAddr(p) ==
    /\ pc[p] = "body" /\ op[p] = "RemoteAddr"
    /\ Return(p, RemoteAddrValue)
    /\ UNCHANGED <<listener, peer, acceptRet, connVars, fieldVars, budget>>

ProxySourceAddr(p) ==
    /\ pc[p] = "body" /\ op[p] = "ProxySourceAddr"
    /\ Return(p, ProxySourceAddrValue)
    /\ UNCHANGED <<listener, peer, acceptRet, connVars, fieldVars, budget>>

\* a result of Read: the bytes put in b, the error, whether the call read the
\* raw connection, whether it was the call that ran checkPrefix
ReadResult(p, data, e, io) == <<data, e, io, p \in hist.ran>>

\* if err != nil { return 0, err }
ReadFails(p) == err[p] # Nil

Read(p) ==
    /\ pc[p] = "body" /\ op[p] = "Read"
    /\ IF ReadFails(p)
       THEN /\ Return(p, ReadResult(p, <<>>, err[p], FALSE))
            /\ UNCHANGED <<taken, bufReader>>
       ELSE \E n \in 1..MaxReadLen :
              IF bufReader # <<>>
              THEN \* the reader hands out what it holds
                   LET k == Min(n, Len(bufReader))
                   IN /\ bufReader' = SubSeq(bufReader, k + 1, Len(bufReader))
                      /\ taken' = taken
                      /\ pc' = [pc EXCEPT ![p] = "idle"]
                      /\ op' = [op EXCEPT ![p] = NoOp]
                      /\ err' = [err EXCEPT ![p] = Nil]
                      /\ hist' = [hist EXCEPT
                            !.last["Read"] = ReadResult(p, SubSeq(bufReader, 1, k), Nil, FALSE),
                            !.out = @ \o SubSeq(bufReader, 1, k),
                            !.ran = @ \ {p}]
              ELSE \* one read of the raw connection, into the reader
                   \E r \in ConnRead :
                     LET k == Min(n, r.n)
                     IN /\ bufReader' = SubSeq(ConnBytes(r.n), k + 1, r.n)
                        /\ taken' = taken + r.n
                        /\ pc' = [pc EXCEPT ![p] = "idle"]
                        /\ op' = [op EXCEPT ![p] = NoOp]
                        /\ err' = [err EXCEPT ![p] = Nil]
                        /\ hist' = [hist EXCEPT
                              !.last["Read"] = ReadResult(p, SubSeq(ConnBytes(r.n), 1, k), r.err, TRUE),
                              !.out = @ \o SubSeq(ConnBytes(r.n), 1, k),
                              !.ran = @ \ {p}]
    /\ UNCHANGED <<listener, peer, acceptRet, connState, readDeadline, srcAddr, dstAddr,
                   proxyErr, useConnAddr, once, proxyHeaderTimeout, unknownOK, budget>>

\* WriteTo: the error of checkPrefix, or the reader's bytes go to the writer
WriteToBegin(p) ==
    /\ pc[p] = "body" /\ op[p] = "WriteTo"
    /\ IF err[p] # Nil
       THEN /\ Return(p, <<0, err[p]>>)
            /\ UNCHANGED bufReader
       ELSE /\ pc' = [pc EXCEPT ![p] = "copy"]
            /\ bufReader' = <<>>
            /\ hist' = [hist EXCEPT !.wout = @ \o bufReader]
            /\ UNCHANGED <<op, err>>
    /\ UNCHANGED <<listener, peer, acceptRet, connVars, srcAddr, dstAddr, proxyErr,
                   useConnAddr, once, proxyHeaderTimeout, unknownOK, budget>>

\* WriteTo: what is read from the raw connection goes to the writer, until
\* a read fails; io.EOF is no error of WriteTo
WriteToCopy(p) ==
    /\ pc[p] = "copy"
    /\ \E r \in ConnRead :
         /\ taken' = taken + r.n
         /\ IF r.err = Nil
            THEN /\ hist' = [hist EXCEPT !.wout = @ \o ConnBytes(r.n)]
                 /\ UNCHANGED <<pc, op, err>>
            ELSE Return(p, <<Len(hist.wout), IF r.err = EOF THEN Nil ELSE r.err>>)
    /\ UNCHANGED <<listener, peer, acceptRet, connState, readDeadline, fieldVars, budget>>

Next ==
    \/ Accept
    \/ \E p \in Procs, o \in Ops : Call(p, o)
    \/ \E p \in Procs : OnceBegin(p)
    \/ \E p \in Procs : OncePass(p)
    \/ \E p \in Procs : ParseStep(p)
    \/ \E p \in Procs : LocalAddr(p)
    \/ \E p \in Procs : RemoteAddr(p)
    \/ \E p \in Procs : ProxySourceAddr(p)
    \/ \E p \in Procs : Read(p)
    \/ \E p \in Procs : WriteToBegin(p)
    \/ \E p \in Procs : WriteToCopy(p)

\* one goroutine uses the Conn, call after call
Init == Start(Setups, [p \in Procs |-> IF p = "g1" THEN MaxCalls ELSE 0])

Spec == Init /\ [][Next]_vars

\* the goroutines use the Conn at the same time, with one call each
InitConcurrent == Start(ConcurrentSetups, [p \in Procs |-> 1])

SpecConcurrent == InitConcurrent /\ [][Next]_vars

(***************************************************************************)
(* Conn.SetReadDeadline: the caller sets a read deadline of its own on the *)
(* raw connection, or removes it, between two calls of the other methods.  *)
(***************************************************************************)
SetReadDeadline(p) ==
    /\ acceptRet # <<>> /\ acceptRet[1] = "conn"
    /\ pc[p] = "idle"
    /\ budget[p] > 0
    /\ \E d \in {"none", "caller"} : d # readDeadline /\ readDeadline' = d
    /\ budget' = [budget EXCEPT ![p] = @ - 1]
    /\ UNCHANGED <<listener, peer, acceptRet, connState, taken, fieldVars, pc, op,
                   err, hist>>

NextDeadline == Next \/ \E p \in Procs : SetReadDeadline(p)

\* the setups in which the caller sets deadlines: one stream for each way
\* checkPrefix returns
DeadlineSetups ==
    { s \in Setups :
        /\ s[1].SourceCheck = "nil" /\ s[1].UnknownOK
        /\ \/ s[2].class = "tcp" /\ s[2].ending = "open"
           \/ s[2].class = "unknown"
           \/ s[2].class = "plain" /\ s[2].ending = "open"
           \/ s[2].class = "short" /\ s[2].ending = "reset"
           \/ s[2].class = "malformed" /\ Len(s[2].stream) <= 7
           \/ s[2].class = "incomplete" /\ s[2].ending = "open" }

InitDeadline == Start(DeadlineSetups, [p \in Procs |-> IF p = "g1" THEN MaxCalls ELSE 0])

SpecDeadline == InitDeadline /\ [][NextDeadline]_vars

(***************************************************************************)
(* The specification with the scheduling: a goroutine that can take a step *)
(* of a method takes it.  A read of the raw connection that can return     *)
(* does return: bytes that the peer has sent arrive, the end of the stream *)
(* is reported, a read deadline that is set expires.  Nothing makes the    *)
(* caller call a method.  The peers are those that fall silent: before    *)
(* the first byte, inside the signature, after a byte that differs from    *)
(* it, inside the line.                                                    *)
(***************************************************************************)
LiveSetups ==
    { s \in Setups :
        /\ s[1].SourceCheck = "nil" /\ s[1].UnknownOK
        /\ s[2].class \in {"short", "plain", "incomplete"}
        /\ s[2].ending = "open" }

InitLive == Start(LiveSetups, [p \in Procs |-> IF p = "g1" THEN MaxCalls ELSE 0])

Fairness ==
    \A p \in Procs :
        /\ WF_vars(OnceBegin(p))
        /\ WF_vars(OncePass(p))
        /\ WF_vars(ParseStep(p))
        /\ WF_vars(LocalAddr(p))
        /\ WF_vars(RemoteAddr(p))
        /\ WF_vars(ProxySourceAddr(p))
        /\ WF_vars(Read(p))
        /\ WF_vars(WriteToBegin(p))
        /\ WF_vars(WriteToCopy(p))

SpecLive == InitLive /\ [][Next]_vars /\ Fairness

(***************************************************************************)
(* What the properties speak of.                                           *)
(***************************************************************************)
IsPrefix(a, b) == Len(a) <= Len(b) /\ SubSeq(b, 1, Len(a)) = a

Last(o) == hist.last[o]
Returned(o) == hist.last[o] # <<>>

\* the source is trusted: no SourceCheck, or SourceCheck returned true
Trusted == listener.SourceCheck \in {"nil", "allow"}

\* the parse is over
Parsed == once = "done"

\* the header-read deadline expired in the parse
TimedOut == hist.timedOut

\* the peer's line is one the listener accepts
HeaderAccepted ==
    peer.class = "tcp" \/ (peer.class = "unknown" /\ listener.UnknownOK)

\* no WriteTo has taken bytes of the stream
NoWriteTo == ~Returned("WriteTo") /\ \A p \in Procs : op[p] # "WriteTo"

\* a Read has reported the end of the stream
ReadSawEOF == Returned("Read") /\ Last("Read")[2] = EOF

\* every byte read from the raw connection was handed out by Read, in
\* order, or is held by the buffered reader
NothingLost(from) ==
    hist.out \o bufReader = SubSeq(peer.stream, from + 1, taken)

\* the first byte of the payload, counted in the stream
PayloadStart == Len(peer.stream) - Len(peer.payload)

(***************************************************************************)
(* C1: for a trusted source and a stream that begins with a well-formed    *)
(* TCP4 or TCP6 line, once the parse is over RemoteAddr returns the line's *)
(* source address and LocalAddr its destination address, whichever method  *)
(* ran the parse.                                                          *)
(***************************************************************************)
C1_HeaderAddresses ==
    (peer.class = "tcp" /\ Trusted /\ ~TimedOut) =>
        /\ Parsed => RemoteAddrValue = peer.src /\ LocalAddrValue = peer.dst
        /\ Returned("RemoteAddr") => Last("RemoteAddr") = peer.src
        /\ Returned("LocalAddr") => Last("LocalAddr") = peer.dst

C1_Witness ==
    /\ peer.class = "tcp" /\ Trusted
    /\ hist.trigger = "WriteTo"
    /\ Last("RemoteAddr") = peer.src
    /\ Last("LocalAddr") = peer.dst

(***************************************************************************)
(* C2: for a stream that is an accepted header line and a payload, the     *)
(* bytes the Reads return are, in order, the bytes after the line feed of  *)
(* the header: always a prefix of the payload, none lost, and all of it    *)
(* once a Read has reported the end of the stream.                         *)
(***************************************************************************)
C2_PayloadExact ==
    (HeaderAccepted /\ ~TimedOut) =>
        /\ IsPrefix(hist.out, peer.payload)
        /\ (Parsed /\ NoWriteTo) => NothingLost(PayloadStart)
        /\ (NoWriteTo /\ ReadSawEOF) => hist.out = peer.payload

C2_Witness ==
    /\ HeaderAccepted
    /\ hist.trigger = "RemoteAddr"
    /\ ReadSawEOF
    /\ peer.payload # <<>>
    /\ hist.out = peer.payload

(***************************************************************************)
(* C3: for a stream that differs from the signature, the parse consumes    *)
(* nothing: the Reads return the stream from its first byte, the raw       *)
(* connection is not closed, RemoteAddr and LocalAddr return the raw       *)
(* connection's addresses.                                                 *)
(***************************************************************************)
C3_PlainPassThrough ==
    peer.class = "plain" =>
        /\ IsPrefix(hist.out, peer.stream)
        /\ (Parsed /\ NoWriteTo) => NothingLost(0)
        /\ connState # "closed"
        /\ Parsed => RemoteAddrValue = RawRemote /\ LocalAddrValue = RawLocal
        /\ Returned("RemoteAddr") => Last("RemoteAddr") = RawRemote
        /\ Returned("LocalAddr") => Last("LocalAddr") = RawLocal

C3_Witness ==
    /\ peer.class = "plain"
    /\ Last("RemoteAddr") = RawRemote
    /\ hist.out = peer.stream

(***************************************************************************)
(* C4: when SourceCheck returned (false, nil), RemoteAddr and LocalAddr    *)
(* return the raw connection's addresses whatever the stream carries, and  *)
(* ProxySourceAddr returns the source address of a well-formed line with a *)
(* nil error.                                                              *)
(***************************************************************************)
C4_UntrustedSource ==
    listener.SourceCheck = "deny" =>
        /\ Parsed => RemoteAddrValue = RawRemote /\ LocalAddrValue = RawLocal
        /\ Returned("RemoteAddr") => Last("RemoteAddr") = RawRemote
        /\ Returned("LocalAddr") => Last("LocalAddr") = RawLocal
        /\ (peer.class = "tcp" /\ ~TimedOut /\ Returned("ProxySourceAddr")) =>
              Last("ProxySourceAddr") = <<peer.src, Nil>>

C4_Witness ==
    /\ listener.SourceCheck = "deny" /\ peer.class = "tcp"
    /\ Last("RemoteAddr") = RawRemote
    /\ Last("LocalAddr") = RawLocal
    /\ Last("ProxySourceAddr") = <<peer.src, Nil>>

(***************************************************************************)
(* C5: for the line PROXY UNKNOWN on a Conn that accepts it,               *)
(* ProxySourceAddr returns (nil, nil), RemoteAddr and LocalAddr return the *)
(* raw connection's addresses, the raw connection is not closed and the    *)
(* Reads return the bytes after the line.                                  *)
(***************************************************************************)
C5_UnknownAccepted ==
    (peer.class = "unknown" /\ listener.UnknownOK /\ ~TimedOut) =>
        /\ Parsed => /\ ProxySourceAddrValue = <<NoAddr, Nil>>
                     /\ RemoteAddrValue = RawRemote /\ LocalAddrValue = RawLocal
        /\ Returned("ProxySourceAddr") => Last("ProxySourceAddr") = <<NoAddr, Nil>>
        /\ Returned("RemoteAddr") => Last("RemoteAddr") = RawRemote
        /\ Returned("LocalAddr") => Last("LocalAddr") = RawLocal
        /\ connState # "closed"
        /\ IsPrefix(hist.out, peer.payload)
        /\ (Parsed /\ NoWriteTo) => NothingLost(PayloadStart)

C5_Witness ==
    /\ peer.class = "unknown" /\ listener.UnknownOK
    /\ Last("ProxySourceAddr") = <<NoAddr, Nil>>
    /\ Last("RemoteAddr") = RawRemote
    /\ hist.out # <<>>

(***************************************************************************)
(* C6: a header that begins with the signature and breaks the grammar      *)
(* leaves the raw connection closed when the parse is over, hence when the *)
(* call that ran it returns, and ProxySourceAddr then reports an error.    *)
(***************************************************************************)
HeaderMalformed ==
    peer.class = "malformed" \/ (peer.class = "unknown" /\ ~listener.UnknownOK)

C6_MalformedCloses ==
    (HeaderMalformed /\ ~TimedOut /\ Parsed) =>
        /\ connState = "closed"
        /\ ProxySourceAddrValue[2] # Nil
        /\ Returned("ProxySourceAddr") => Last("ProxySourceAddr")[2] # Nil

C6_Witness ==
    /\ HeaderMalformed /\ ~TimedOut
    /\ hist.trigger = "Read"
    /\ connState = "closed"
    /\ Returned("ProxySourceAddr") /\ Last("ProxySourceAddr")[2] # Nil

(***************************************************************************)
(* C7: after the parse has failed on a malformed header, every Read        *)
(* returns the stored parse error and does not read the raw connection.    *)
(***************************************************************************)
C7_LaterReadsGetParseError ==
    (HeaderMalformed /\ ~TimedOut /\ Returned("Read")) =>
        /\ Last("Read")[1] = <<>>
        /\ Last("Read")[2] = proxyErr
        /\ ~Last("Read")[3]

(***************************************************************************)
(* C8: with the methods called from three goroutines at once,              *)
(* checkPrefix runs at most once, in one goroutine at a time, and no call  *)
(* is past p.once.Do, where it reads the fields of the Conn and the        *)
(* buffered reader, before that run is over: a call made while the parse   *)
(* is in flight waits.                                                     *)
(***************************************************************************)
C8_ParseOnce ==
    /\ hist.parseRuns <= 1
    /\ Cardinality({p \in Procs : pc[p] = "parse"}) <= 1
    /\ \A p \in Procs : pc[p] \in {"body", "copy"} => once = "done"
    /\ once = "running" <=> \E p \in Procs : pc[p] = "parse"

C8_Witness ==
    \E p, q \in Procs :
        /\ pc[p] = "parse" /\ taken > 0
        /\ pc[q] = "once"

(***************************************************************************)
(* C9: when the header-read deadline expires while fewer than six bytes of *)
(* the signature have arrived, the parse ends as for an absent signature:  *)
(* checkPrefix returns nil, so that the Read or WriteTo that ran it has no *)
(* parse error to report, the raw connection is not closed, RemoteAddr and *)
(* LocalAddr return the raw addresses and the bytes received are handed    *)
(* out by the Reads.                                                       *)
(***************************************************************************)
SignatureTimeout == TimedOut /\ hist.parseTaken < prefixLen

C9_SignatureTimeoutIsAbsent ==
    SignatureTimeout =>
        /\ hist.parseRet = Nil
        /\ \A p \in hist.ran : err[p] = Nil
        /\ connState # "closed"
        /\ RemoteAddrValue = RawRemote /\ LocalAddrValue = RawLocal
        /\ Returned("RemoteAddr") => Last("RemoteAddr") = RawRemote
        /\ Returned("LocalAddr") => Last("LocalAddr") = RawLocal
        /\ IsPrefix(hist.out, peer.stream)
        /\ NoWriteTo => NothingLost(0)

C9_Witness ==
    /\ SignatureTimeout
    /\ hist.parseTaken > 0
    /\ Returned("RemoteAddr")
    /\ Len(hist.out) >= hist.parseTaken

(***************************************************************************)
(* C10: once the parse is over, ProxySourceAddr returns a nil error        *)
(* exactly when the stream began with a header that was accepted; it       *)
(* returns an error for an absent signature, a timeout, a transport error  *)
(* and a malformed header.  The headers that were accepted are the        *)
(* well-formed ones and the lines with six fields that the parse resolves  *)
(* although an IP literal is of the other family, a port carries a sign or *)
(* the carriage return is missing (C13, C14, C15).                         *)
(***************************************************************************)
LenientlyResolved == peer.class \in {"crossfamily", "signed", "lfonly"}

HeaderTaken == (HeaderAccepted \/ LenientlyResolved) /\ ~TimedOut

C10_ProxySourceAddrTells ==
    /\ Parsed => (ProxySourceAddrValue[2] = Nil <=> HeaderTaken)
    /\ Returned("ProxySourceAddr") => (Last("ProxySourceAddr")[2] = Nil <=> HeaderTaken)

C10_Witness ==
    /\ peer.class = "tcp" /\ TimedOut
    /\ Returned("ProxySourceAddr")
    /\ Last("ProxySourceAddr")[2] # Nil

(***************************************************************************)
(* C11: once the parse has ended in a parse error on a malformed header,   *)
(* RemoteAddr and LocalAddr return the raw connection's addresses, never   *)
(* an address of the header, also when the source IP and port of the line  *)
(* parse and its destination IP or port does not.                          *)
(***************************************************************************)
C11_ParseErrorRawAddrs ==
    (HeaderMalformed /\ ~TimedOut /\ Parsed) =>
        /\ RemoteAddrValue = RawRemote /\ LocalAddrValue = RawLocal
        /\ Returned("RemoteAddr") => Last("RemoteAddr") = RawRemote
        /\ Returned("LocalAddr") => Last("LocalAddr") = RawLocal

(***************************************************************************)
(* C12: when the raw Accept has succeeded and SourceCheck returns an       *)
(* error, Accept returns (nil, that error) and there is no Conn: no method *)
(* is ever called and no parse begins; when SourceCheck returns            *)
(* (false, nil), Accept returns a Conn with a nil error, and that Conn     *)
(* prefers the raw connection's addresses.                                 *)
(***************************************************************************)
RawAccepted == acceptRet # <<>> /\ connState # "none"

C12_AcceptSourceCheck ==
    RawAccepted =>
        /\ listener.SourceCheck = "error" =>
              /\ acceptRet = <<"nil", ErrInvalidUpstream>>
              /\ once = "new"
              /\ \A p \in Procs : pc[p] = "idle" /\ op[p] = NoOp
              /\ \A o \in Ops : ~Returned(o)
        /\ listener.SourceCheck = "deny" =>
              /\ acceptRet = <<"conn", Nil>>
              /\ useConnAddr

C12_Witness ==
    /\ RawAccepted
    /\ listener.SourceCheck = "error"
    /\ acceptRet = <<"nil", ErrInvalidUpstream>>

(***************************************************************************)
(* C20: when Accept has returned without a Conn, the raw connection it     *)
(* obtained from the underlying listener, if any, has been closed.         *)
(***************************************************************************)
C20_AcceptNeverLeaks ==
    (acceptRet # <<>> /\ acceptRet[1] = "nil") => connState # "open"

(***************************************************************************)
(* What the peer's line says, read off the stream: its fields are what     *)
(* stands between the spaces of the bytes before the line feed, less the   *)
(* carriage return when there is one.                                      *)
(***************************************************************************)
\* the parse has resolved the header to a source and a destination address
Resolved == Parsed /\ proxyErr = Nil /\ srcAddr # NoAddr /\ dstAddr # NoAddr

LineFeedAt == IndexOf(peer.stream, LF)

EndsInCRLF == LineFeedAt > 1 /\ peer.stream[LineFeedAt - 1] = CR

LineFields ==
    Split(SubSeq(peer.stream, 1, LineFeedAt - (IF EndsInCRLF THEN 2 ELSE 1)), " ")

IsV4Literal(t) == IndexOf(t, ":") = 0 /\ IndexOf(t, ".") # 0
IsV6Literal(t) == IndexOf(t, ":") # 0

FamilyMatches ==
    /\ LineFields[2] = TCP4 => IsV4Literal(LineFields[3]) /\ IsV4Literal(LineFields[4])
    /\ LineFields[2] = TCP6 => IsV6Literal(LineFields[3]) /\ IsV6Literal(LineFields[4])

(***************************************************************************)
(* C13: a header is resolved only when its two IP fields are literals of   *)
(* the family the line declares; a TCP4 line with an IPv6 literal and a    *)
(* TCP6 line with an IPv4 literal end the parse in an error.               *)
(***************************************************************************)
C13_FamilyChecked ==
    /\ Resolved => FamilyMatches
    /\ (peer.class = "crossfamily" /\ Parsed) => proxyErr # Nil

(***************************************************************************)
(* C14: a line with a signed port ends the parse in an error, and no       *)
(* address that RemoteAddr, LocalAddr or ProxySourceAddr returns has a     *)
(* negative port.                                                          *)
(***************************************************************************)
PortOf(addr) == addr[2]

C14_PortsNonNegative ==
    /\ (peer.class = "signed" /\ Parsed) => proxyErr # Nil
    /\ Returned("RemoteAddr") => PortOf(Last("RemoteAddr")) >= 0
    /\ Returned("LocalAddr") => PortOf(Last("LocalAddr")) >= 0
    /\ (Returned("ProxySourceAddr") /\ Last("ProxySourceAddr")[1] # NoAddr) =>
          PortOf(Last("ProxySourceAddr")[1]) >= 0

(***************************************************************************)
(* C15: a header is resolved only when its line ends in a carriage return  *)
(* and a line feed, and the destination port of a resolved header is the   *)
(* number its last field spells.                                           *)
(***************************************************************************)
C15_TerminatorIsCRLF ==
    Resolved =>
        /\ EndsInCRLF
        /\ PortOf(dstAddr) = Atoi(LineFields[Len(LineFields)]).val

(***************************************************************************)
(* C16: with a header-read timeout, the step that begins the parse sets    *)
(* the read deadline of the raw connection before any byte is read, the    *)
(* deadline stays set while the parse runs, and the step that ends the     *)
(* parse, however it ends, leaves the read deadline at none, so that it is *)
(* none when the call that ran the parse returns; without a timeout no     *)
(* step of the parse changes the read deadline, whatever the caller had    *)
(* set it to.                                                              *)
(***************************************************************************)
ParseBegins == once = "new" /\ once' = "running"
ParseGoesOn == once = "running" /\ once' = "running"
ParseEnds == once = "running" /\ once' = "done"

LineTimeout == Parsed /\ TimedOut /\ hist.parseTaken >= prefixLen

C17_LineTimeoutIsError ==
    LineTimeout =>
        /\ connState = "closed"
        /\ hist.parseRet = ErrTimeout
        /\ \A p \in hist.ran : op[p] = "Read" => err[p] = ErrTimeout
        /\ (Returned("Read") /\ Last("Read")[4]) =>
              Last("Read")[1] = <<>> /\ Last("Read")[2] = ErrTimeout
        /\ ProxySourceAddrValue[2] # Nil
        /\ Returned("ProxySourceAddr") => Last("ProxySourceAddr")[2] # Nil

C17_Witness ==
    /\ LineTimeout
    /\ Last("Read") = <<<<>>, ErrTimeout, FALSE, TRUE>>
    /\ Returned("ProxySourceAddr")

(***************************************************************************)
(* C18: the parse leaves the Conn in the same state whichever method runs  *)
(* it: for the bytes and the read error that the run of checkPrefix saw,   *)
(* the raw connection is closed or open and the buffered reader holds the  *)
(* same bytes, hence the next Read has the same result, as when a method   *)
(* of the other kind (Read or WriteTo, an address accessor) had run it.    *)
(* hist.own is what the run left behind, hist.other what the other kind of *)
(* method leaves behind on the same result of checkPrefix.                 *)
(***************************************************************************)
C18_TriggerIndependent ==
    Parsed =>
        /\ hist.own = hist.other
        /\ (connState = "closed") <=> hist.other.close

(***************************************************************************)
(* C19: with a header-read timeout, every call of RemoteAddr, LocalAddr    *)
(* and ProxySourceAddr returns in the end, also when the peer sends        *)
(* nothing or falls silent inside the signature or the line; and a call of *)
(* one of them made once the parse is over returns, with or without a      *)
(* timeout and however silent the peer, without a read of the raw          *)
(* connection.                                                             *)
(***************************************************************************)
Accessors == {"LocalAddr", "RemoteAddr", "ProxySourceAddr"}

InAccessor(p) == pc[p] # "idle" /\ op[p] \in Accessors

C19_AccessorsReturn ==
    /\ \A p \in Procs :
          (InAccessor(p) /\ proxyHeaderTimeout # 0) ~> (pc[p] = "idle")
    /\ \A p \in Procs : (InAccessor(p) /\ Parsed) ~> (pc[p] = "idle")
    /\ [][(Parsed /\ \E p \in Procs : InAccessor(p)) => taken' = taken]_vars

C19_Witness ==
    /\ proxyHeaderTimeout # 0
    /\ peer.class \in {"short", "incomplete"} /\ peer.ending = "open"
    /\ hist.trigger = "RemoteAddr" /\ TimedOut
    /\ Returned("RemoteAddr") /\ Returned("LocalAddr")
====
